---- MODULE Spec2Model ----
(***************************************************************************)
(* Model of kaliber's query options (queryoptions.go), of the page         *)
(* handler's use of them and of the query layer (db/queries.go).           *)
(*                                                                         *)
(* Go strings are sequences of one-character strings, so that formatting,  *)
(* quoting, scanning and trimming work on characters.  Go's uint is        *)
(* modelled with the modulus UintMod instead of 2^64.                      *)
(***************************************************************************)
EXTENDS Integers, Sequences, FiniteSets, TLC

VARIABLES
    qo,      \* the TQueryOptions value of the running request
    twin,    \* a second options value that receives the same Update calls
    pre,     \* qo as it was before the last operation
    pre2,    \* qo as it was before the last two operations
    op,      \* name of the last operation
    op2,     \* name of the operation before it
    req,     \* the form values of the last Update call
    steplen, \* LimitLength in effect at the last DecLimit / IncLimit step
    ovf,     \* an IncLimit sum has exceeded the unsigned range
    resized, \* an Update call has changed LimitLength
    store,   \* what the store answered during the last query operation
    db,      \* the store queries the last query operation issued, in order
    ret,     \* the values the last query operation returned
    arg,     \* the argument of the last call of a decoder, escapeQuery or Scan
    res      \* what the last call of a decoder or of escapeQuery returned

optVars == <<qo, twin, pre, pre2, op, op2, req, steplen, ovf, resized>>

dbVars == <<store, db, ret>>

vars == <<qo, twin, pre, pre2, op, op2, req, steplen, ovf, resized, store, db, ret,
          arg, res>>

(***************************************************************************)
(* Bounds                                                                  *)
(***************************************************************************)
\* modulus of the unsigned integer type (2^64 in the build)
UintMod == 64
\* largest number of form values present in one request of Spec
MaxParams == 2
\* largest row count the store reports
MaxCount == 2
\* largest number of bytes of a search term
MaxRaw == 3
\* largest number of segments in a packed column of well-formed segments
MaxSegs == 7
\* largest number of segments in a packed column of odd segments
MaxOdd == 2

(***************************************************************************)
(* Program constants                                                       *)
(***************************************************************************)
qoSortUnsorted == 0
qoSortByAcquisition == 1
qoSortByAuthor == 2
qoSortByLanguage == 3
qoSortByPublisher == 4
qoSortByRating == 5
qoSortBySeries == 6
qoSortBySize == 7
qoSortByTags == 8
qoSortByTime == 9
qoSortByTitle == 10
qoLangGerman == 0
qoLangEnglish == 1
qoLayoutList == 0
qoLayoutGrid == 1
qoThemeLight == 0
qoThemeDark == 1
\* NewQueryOptions: LimitLength: 24
DefaultLimitLength == 24
\* width of the uint8 fields GuiLang, Layout, SortBy, Theme
Uint8Mod == 256

(***************************************************************************)
(* Strings                                                                 *)
(***************************************************************************)
sEmpty == <<>>
sEn == <<"e", "n">>
sDe == <<"d", "e">>
sGrid == <<"g", "r", "i", "d">>
sDark == <<"d", "a", "r", "k">>
sDescending == <<"d", "e", "s", "c", "e", "n", "d", "i", "n", "g">>
sAscending == <<"a", "s", "c", "e", "n", "d", "i", "n", "g">>
sAcquisition == <<"a", "c", "q", "u", "i", "s", "i", "t", "i", "o", "n">>
sAuthor == <<"a", "u", "t", "h", "o", "r">>
sLanguage == <<"l", "a", "n", "g", "u", "a", "g", "e">>
sPublisher == <<"p", "u", "b", "l", "i", "s", "h", "e", "r">>
sRating == <<"r", "a", "t", "i", "n", "g">>
sSeries == <<"s", "e", "r", "i", "e", "s">>
sSize == <<"s", "i", "z", "e">>
sTags == <<"t", "a", "g", "s">>
sTime == <<"t", "i", "m", "e">>
sTitle == <<"t", "i", "t", "l", "e">>
sDash == <<"-">>
sTag == <<"t", "a", "g">>
sAll == <<"a", "l", "l">>
sTrue == <<"t", "r", "u", "e">>
sFalse == <<"f", "a", "l", "s", "e">>

DigitChars == <<"0", "1", "2", "3", "4", "5", "6", "7", "8", "9">>

IsDigit(c) == \E i \in 1..10 : DigitChars[i] = c

DigitVal(c) == (CHOOSE i \in 1..10 : DigitChars[i] = c) - 1

\* strings.TrimSpace
RECURSIVE TrimLeft(_)
TrimLeft(s) ==
    IF s # <<>> /\ Head(s) = " " THEN TrimLeft(Tail(s)) ELSE s

RECURSIVE TrimRight(_)
TrimRight(s) ==
    IF s # <<>> /\ s[Len(s)] = " " THEN TrimRight(SubSeq(s, 1, Len(s) - 1)) ELSE s

TrimSpace(s) == TrimRight(TrimLeft(s))

(***************************************************************************)
(* fmt.Sprintf: the verbs of qoStringPattern                               *)
(***************************************************************************)
\* %d of a non-negative number: its decimal digits
RECURSIVE FormatUint(_)
FormatUint(n) ==
    IF n < 10 THEN <<DigitChars[n + 1]>>
    ELSE FormatUint(n \div 10) \o <<DigitChars[(n % 10) + 1]>>

\* %d of a signed number
FormatInt(n) == IF n < 0 THEN <<"-">> \o FormatUint(0 - n) ELSE FormatUint(n)

\* %t
FormatBool(b) == IF b THEN sTrue ELSE sFalse

\* the escape strconv.Quote writes for one character
QuoteChar(c) ==
    CASE c = "\"" -> <<"\\", "\"">>
      [] c = "\\" -> <<"\\", "\\">>
      [] c = "LF" -> <<"\\", "n">>
      [] c = "CR" -> <<"\\", "r">>
      [] c = "TAB" -> <<"\\", "t">>
      [] OTHER -> <<c>>

RECURSIVE QuoteBody(_)
QuoteBody(s) == IF s = <<>> THEN <<>> ELSE QuoteChar(Head(s)) \o QuoteBody(Tail(s))

\* %q: strconv.Quote
Quote(s) == <<"\"">> \o QuoteBody(s) \o <<"\"">>

\* the verbs and the literal text of qoStringPattern, in order
qoStringPattern ==
    <<"|", "%d", "|", "%t", "|", "%q", "|", "%u8", "|", "%u8", "|", "%u", "|", "%u",
      "|", "%q", "|", "%u", "|", "%u8", "|", "%u8", "|", "%q", "|">>

\* TQueryOptions.String
String(q) ==
    <<"|">> \o FormatInt(q.ID) \o
    <<"|">> \o FormatBool(q.Descending) \o
    <<"|">> \o Quote(q.Entity) \o
    <<"|">> \o FormatUint(q.GuiLang) \o
    <<"|">> \o FormatUint(q.Layout) \o
    <<"|">> \o FormatUint(q.LimitLength) \o
    <<"|">> \o FormatUint(q.LimitStart) \o
    <<"|">> \o Quote(q.Matching) \o
    <<"|">> \o FormatUint(q.QueryCount) \o
    <<"|">> \o FormatUint(q.SortBy) \o
    <<"|">> \o FormatUint(q.Theme) \o
    <<"|">> \o Quote(q.VirtLib) \o <<"|">>

(***************************************************************************)
(* fmt.Sscanf: a scan step yields [ok, pos, val]; pos is the next          *)
(* character to read.                                                      *)
(***************************************************************************)
ScanFail == [ok |-> FALSE, pos |-> 0, val |-> 0]

\* ss.SkipSpace
RECURSIVE SkipSpace(_, _)
SkipSpace(in, p) ==
    IF p <= Len(in) /\ in[p] = " " THEN SkipSpace(in, p + 1) ELSE p

\* ss.scanNumber: the end of the run of digits that starts at p
RECURSIVE DigitsEnd(_, _)
DigitsEnd(in, p) ==
    IF p <= Len(in) /\ IsDigit(in[p]) THEN DigitsEnd(in, p + 1) ELSE p

\* strconv.ParseUint of in[p..e-1]; every value above max comes out as max + 1
RECURSIVE ParseDigits(_, _, _, _, _)
ParseDigits(in, p, e, acc, max) ==
    IF p >= e THEN acc
    ELSE LET n == (10 * acc) + DigitVal(in[p])
         IN  ParseDigits(in, p + 1, e, IF n > max THEN max + 1 ELSE n, max)

\* ss.scanUint for a target of the given modulus
ScanUint(in, p0, mod) ==
    LET p == SkipSpace(in, p0)
        e == DigitsEnd(in, p)
        max == (IF mod < UintMod THEN mod ELSE UintMod) - 1
        n == ParseDigits(in, p, e, 0, max)
    IN  IF e = p \/ n > max THEN ScanFail
        ELSE [ok |-> TRUE, pos |-> e, val |-> n]

\* ss.scanInt: an optional sign, then digits
ScanInt(in, p0) ==
    LET p == SkipSpace(in, p0)
        neg == p <= Len(in) /\ in[p] = "-"
        d == IF p <= Len(in) /\ in[p] \in {"-", "+"} THEN p + 1 ELSE p
        e == DigitsEnd(in, d)
        max == IF neg THEN UintMod \div 2 ELSE (UintMod \div 2) - 1
        n == ParseDigits(in, d, e, 0, max)
    IN  IF e = d \/ n > max THEN ScanFail
        ELSE [ok |-> TRUE, pos |-> e, val |-> IF neg THEN 0 - n ELSE n]

\* the character at p, or "" past the end
At(in, p) == IF p <= Len(in) THEN in[p] ELSE ""

\* ss.scanBool
ScanBool(in, p0) ==
    LET p == SkipSpace(in, p0)
        c == At(in, p)
    IN  CASE c = "0" -> [ok |-> TRUE, pos |-> p + 1, val |-> FALSE]
          [] c = "1" -> [ok |-> TRUE, pos |-> p + 1, val |-> TRUE]
          [] c = "t" ->
                IF At(in, p + 1) # "r" THEN [ok |-> TRUE, pos |-> p + 1, val |-> TRUE]
                ELSE IF At(in, p + 2) = "u" /\ At(in, p + 3) = "e"
                     THEN [ok |-> TRUE, pos |-> p + 4, val |-> TRUE]
                     ELSE ScanFail
          [] c = "f" ->
                IF At(in, p + 1) # "a" THEN [ok |-> TRUE, pos |-> p + 1, val |-> FALSE]
                ELSE IF At(in, p + 2) = "l" /\ At(in, p + 3) = "s" /\ At(in, p + 4) = "e"
                     THEN [ok |-> TRUE, pos |-> p + 5, val |-> FALSE]
                     ELSE ScanFail
          [] OTHER -> ScanFail

\* ss.quotedString after the opening quote, with strconv.Unquote applied to
\* what it collects: the escapes of a quote, a backslash, \n, \r and \t
RECURSIVE ScanQuotedBody(_, _, _)
ScanQuotedBody(in, p, acc) ==
    IF p > Len(in) THEN ScanFail
    ELSE IF in[p] = "\"" THEN [ok |-> TRUE, pos |-> p + 1, val |-> acc]
    ELSE IF in[p] = "\\" THEN
        LET c == At(in, p + 1)
        IN  CASE c = "\"" -> ScanQuotedBody(in, p + 2, Append(acc, "\""))
              [] c = "\\" -> ScanQuotedBody(in, p + 2, Append(acc, "\\"))
              [] c = "n" -> ScanQuotedBody(in, p + 2, Append(acc, "LF"))
              [] c = "r" -> ScanQuotedBody(in, p + 2, Append(acc, "CR"))
              [] c = "t" -> ScanQuotedBody(in, p + 2, Append(acc, "TAB"))
              [] OTHER -> ScanFail
    ELSE ScanQuotedBody(in, p + 1, Append(acc, in[p]))

\* ss.convertString for %q
ScanQuoted(in, p0) ==
    LET p == SkipSpace(in, p0)
    IN  IF At(in, p) = "\"" THEN ScanQuotedBody(in, p + 1, <<>>) ELSE ScanFail

\* ss.scanOne
ScanOne(verb, in, p) ==
    CASE verb = "%d" -> ScanInt(in, p)
      [] verb = "%t" -> ScanBool(in, p)
      [] verb = "%q" -> ScanQuoted(in, p)
      [] verb = "%u8" -> ScanUint(in, p, Uint8Mod)
      [] verb = "%u" -> ScanUint(in, p, UintMod)

\* ss.doScanf: the operands scanned before the first error, in order
RECURSIVE DoScanf(_, _, _, _)
DoScanf(in, p, i, vals) ==
    IF i > Len(qoStringPattern) THEN vals
    ELSE IF qoStringPattern[i] = "|" THEN
        IF At(in, p) = "|" THEN DoScanf(in, p + 1, i + 1, vals) ELSE vals
    ELSE LET r == ScanOne(qoStringPattern[i], in, p)
         IN  IF r.ok THEN DoScanf(in, r.pos, i + 1, Append(vals, r.val)) ELSE vals

\* TQueryOptions.Scan
Scan(q, aString) ==
    LET vals == DoScanf(aString, 1, 1, <<>>)
        n == Len(vals)
        m == IF n >= 8 THEN vals[8] ELSE sEmpty
        v == IF n >= 12 THEN vals[12] ELSE sEmpty
    IN  [ID |-> IF n >= 1 THEN vals[1] ELSE q.ID,
         Descending |-> IF n >= 2 THEN vals[2] ELSE q.Descending,
         Entity |-> IF n >= 3 THEN vals[3] ELSE q.Entity,
         GuiLang |-> IF n >= 4 THEN vals[4] ELSE q.GuiLang,
         Layout |-> IF n >= 5 THEN vals[5] ELSE q.Layout,
         LimitLength |-> IF n >= 6 THEN vals[6] ELSE q.LimitLength,
         LimitStart |-> IF n >= 7 THEN vals[7] ELSE q.LimitStart,
         Matching |-> TrimSpace(m),
         QueryCount |-> IF n >= 9 THEN vals[9] ELSE q.QueryCount,
         SortBy |-> IF n >= 10 THEN vals[10] ELSE q.SortBy,
         Theme |-> IF n >= 11 THEN vals[11] ELSE q.Theme,
         VirtLib |-> IF v = sDash THEN sEmpty ELSE TrimSpace(v)]

\* the zero value of TQueryOptions
ZeroOptions ==
    [ID |-> 0, Descending |-> FALSE, Entity |-> sEmpty, GuiLang |-> 0, Layout |-> 0,
     LimitLength |-> 0, LimitStart |-> 0, Matching |-> sEmpty, QueryCount |-> 0,
     SortBy |-> 0, Theme |-> 0, VirtLib |-> sEmpty]

\* NewQueryOptions, with no "booksperpage" argument set
NewQueryOptions ==
    [ZeroOptions EXCEPT !.Descending = TRUE,
                        !.LimitLength = DefaultLimitLength,
                        !.SortBy = qoSortByAcquisition]

(***************************************************************************)
(* Pagination                                                              *)
(***************************************************************************)
\* DecLimit without its two guards
DecLimitUnguarded(q) ==
    [q EXCEPT !.LimitStart = (q.LimitStart - q.LimitLength) % UintMod]

\* DecLimit that always subtracts
DecLimitNoClamp(q) ==
    IF 0 < q.LimitStart
    THEN [q EXCEPT !.LimitStart = (q.LimitStart - q.LimitLength) % UintMod]
    ELSE q

\* TQueryOptions.DecLimit
DecLimit(q) ==
    IF 0 < q.LimitStart
    THEN IF q.LimitStart <= q.LimitLength
         THEN [q EXCEPT !.LimitStart = 0]
         ELSE [q EXCEPT !.LimitStart = (q.LimitStart - q.LimitLength) % UintMod]
    ELSE q

\* IncLimit that steps one document too far
IncLimitOff(q) ==
    [q EXCEPT !.LimitStart = (q.LimitStart + q.LimitLength + 1) % UintMod]

\* TQueryOptions.IncLimit
IncLimit(q) == [q EXCEPT !.LimitStart = (q.LimitStart + q.LimitLength) % UintMod]

(***************************************************************************)
(* Update                                                                  *)
(***************************************************************************)
ParamNames ==
    {"guilang", "layout", "limitlength", "matching", "order", "sortby", "theme",
     "virtlib"}

\* http.Request.FormValue: the empty string when the value is absent
FormValue(aRequest, name) == aRequest[name]

\* strconv.Atoi: [ok, val]; a syntax error comes with the value 0, a range
\* error with the nearest value of the int type
Atoi(s) ==
    LET neg == At(s, 1) = "-"
        d == IF At(s, 1) \in {"-", "+"} THEN 2 ELSE 1
        max == IF neg THEN UintMod \div 2 ELSE (UintMod \div 2) - 1
        n == ParseDigits(s, d, Len(s) + 1, 0, max)
    IN  IF d > Len(s) \/ DigitsEnd(s, d) # Len(s) + 1
        THEN [ok |-> FALSE, val |-> 0]
        ELSE IF n > max
        THEN [ok |-> FALSE, val |-> IF neg THEN 0 - max ELSE max]
        ELSE [ok |-> TRUE, val |-> IF neg THEN 0 - n ELSE n]

\* the virtual libraries GetVirtLibList returns: name -> TVirtLibDef.Def
sLib == <<"l">>
sLibDef == <<"b">>
GetVirtLibList == [l \in {sLib} |-> sLibDef]

\* Update, "guilang"
UpdateGuiLang(q, aRequest) ==
    LET lang == FormValue(aRequest, "guilang")
    IN  IF 0 < Len(lang)
        THEN [q EXCEPT !.GuiLang = IF lang = sEn THEN qoLangEnglish ELSE 0]
        ELSE [q EXCEPT !.GuiLang = qoLangGerman]

\* Update, "layout"
UpdateLayout(q, aRequest) ==
    LET lt == FormValue(aRequest, "layout")
    IN  IF 0 < Len(lt)
        THEN [q EXCEPT !.Layout = IF lt = sGrid THEN qoLayoutGrid ELSE 0]
        ELSE [q EXCEPT !.Layout = qoLayoutList]

\* Update, "limitlength"
UpdateLimitLength(q, aRequest) ==
    LET fll == FormValue(aRequest, "limitlength")
        ll == Atoi(fll)
        limlen == ll.val % UintMod
    IN  IF 0 < Len(fll) /\ ll.ok /\ limlen # q.LimitLength
        THEN [DecLimit(q) EXCEPT !.LimitLength = limlen]
        ELSE q

\* Update, "matching"
UpdateMatching(q, aRequest) ==
    LET matching == FormValue(aRequest, "matching")
    IN  IF 0 < Len(matching)
        THEN IF matching # q.Matching
             THEN [q EXCEPT !.ID = 0, !.Matching = matching, !.LimitStart = 0,
                            !.VirtLib = sEmpty]
             ELSE q
        ELSE [q EXCEPT !.Entity = sEmpty, !.ID = 0, !.Matching = sEmpty]

\* Update, "order", without the default for an absent value
UpdateOrderKeep(q, aRequest) ==
    LET fob == FormValue(aRequest, "order")
        desc == (fob = sDescending)
    IN  IF 0 < Len(fob) /\ desc # q.Descending
        THEN [q EXCEPT !.Descending = desc, !.LimitStart = 0]
        ELSE q

\* Update, "order"
UpdateOrder(q, aRequest) ==
    LET fob == FormValue(aRequest, "order")
        desc == (fob = sDescending)
    IN  IF 0 < Len(fob)
        THEN IF desc # q.Descending
             THEN [q EXCEPT !.Descending = desc, !.LimitStart = 0]
             ELSE q
        ELSE [q EXCEPT !.Descending = FALSE]

\* Update, the switch over "sortby"
SortByOf(fsb) ==
    CASE fsb = sAcquisition -> qoSortByAcquisition
      [] fsb = sAuthor -> qoSortByAuthor
      [] fsb = sLanguage -> qoSortByLanguage
      [] fsb = sPublisher -> qoSortByPublisher
      [] fsb = sRating -> qoSortByRating
      [] fsb = sSeries -> qoSortBySeries
      [] fsb = sSize -> qoSortBySize
      [] fsb = sTags -> qoSortByTags
      [] fsb = sTime -> qoSortByTime
      [] fsb = sTitle -> qoSortByTitle
      [] OTHER -> qoSortUnsorted

\* Update, "sortby"
UpdateSortBy(q, aRequest) ==
    LET fsb == FormValue(aRequest, "sortby")
        sb == SortByOf(fsb)
    IN  IF 0 < Len(fsb)
        THEN IF sb # q.SortBy
             THEN [q EXCEPT !.LimitStart = 0, !.SortBy = sb]
             ELSE q
        ELSE [q EXCEPT !.SortBy = qoSortByAcquisition]

\* Update, "theme"
UpdateTheme(q, aRequest) ==
    LET theme == FormValue(aRequest, "theme")
    IN  IF 0 < Len(theme)
        THEN [q EXCEPT !.Theme = IF theme = sDark THEN qoThemeDark ELSE 0]
        ELSE [q EXCEPT !.Theme = qoThemeLight]

\* Update, "virtlib"
UpdateVirtLib(q, aRequest) ==
    LET vl == FormValue(aRequest, "virtlib")
        q1 == [q EXCEPT !.VirtLib = IF vl = sDash THEN sEmpty ELSE vl]
        q2 == IF vl # sEmpty /\ vl \in DOMAIN GetVirtLibList
              THEN [q1 EXCEPT !.Matching = GetVirtLibList[vl]]
              ELSE q1
    IN  IF 0 < Len(vl)
        THEN IF vl # q.VirtLib
             THEN [q2 EXCEPT !.Entity = sEmpty, !.ID = 0, !.LimitStart = 0]
             ELSE q
        ELSE [q EXCEPT !.VirtLib = sEmpty]

\* TQueryOptions.Update
Update(q, aRequest) ==
    UpdateVirtLib(
        UpdateTheme(
            UpdateSortBy(
                UpdateOrder(
                    UpdateMatching(
                        UpdateLimitLength(
                            UpdateLayout(UpdateGuiLang(q, aRequest), aRequest),
                            aRequest),
                        aRequest),
                    aRequest),
                aRequest),
            aRequest),
        aRequest)

(***************************************************************************)
(* The request handler                                                     *)
(***************************************************************************)
\* handleGET, the entity paths: tail is what Sscanf made of the URL's tail
handleGET(q, path, tail) ==
    [(IF tail.ok THEN [q EXCEPT !.ID = tail.id] ELSE q) EXCEPT !.Entity = path]

(***************************************************************************)
(* escapeQuery (db/queries.go).  The bytes newline, carriage return and     *)
(* Ctrl-Z are written "LF", "CR" and "SUB".                                 *)
(***************************************************************************)
\* escapeQuery that leaves the double quote alone
RECURSIVE escapeQueryNoQuote(_)
escapeQueryNoQuote(aSource) ==
    IF aSource = <<>> THEN <<>>
    ELSE LET character == Head(aSource)
         IN  (CASE character \in {"LF", "CR", "\\"} -> <<"\\", character>>
                [] character = "SUB" -> <<"\\", "Z">>
                [] OTHER -> <<character>>)
             \o escapeQueryNoQuote(Tail(aSource))

\* escapeQuery: one or two bytes of the result for each byte of aSource
RECURSIVE escapeQuery(_)
escapeQuery(aSource) ==
    IF aSource = <<>> THEN <<>>
    ELSE LET character == Head(aSource)
         IN  (CASE character \in {"LF", "CR", "\\", "\""} -> <<"\\", character>>
                [] character = "SUB" -> <<"\\", "Z">>
                [] OTHER -> <<character>>)
             \o escapeQuery(Tail(aSource))

(***************************************************************************)
(* The decoders of packed columns (db/queries.go)                          *)
(***************************************************************************)
\* the part sizes of the decoders: name|id, and type|id|value for identifiers
PartsEntity == 2
PartsIdentifier == 3
\* sort.Slice up to Go 1.18 (quickSort_func) runs one ShellSort pass with
\* this gap before its insertion sort, on slices of at most 12 elements
ShellGap == 6

sCommaSpace == <<",", " ">>
sPipe == <<"|">>

\* a < b on Go strings: bytewise, a proper prefix first
RECURSIVE Less(_, _)
Less(a, b) ==
    LET AsciiOrder == <<" ", ",", "1", "2", "3", "9", "A", "B", "C", "T", "u", "x", "|">>
        Ord(c) == CHOOSE i \in 1..Len(AsciiOrder) : AsciiOrder[i] = c
    IN  IF b = <<>> THEN FALSE
        ELSE IF a = <<>> THEN TRUE
        ELSE IF Head(a) # Head(b) THEN Ord(Head(a)) < Ord(Head(b))
        ELSE Less(Tail(a), Tail(b))

\* strings.SplitN(s, sep, n) for a non-empty sep: at most n parts when n > 0,
\* every part when n < 0, as strings.Split; cur is the part collected so far
RECURSIVE SplitN(_, _, _, _)
SplitN(s, sep, n, cur) ==
    IF n = 1 THEN <<cur \o s>>
    ELSE IF s = <<>> THEN <<cur>>
    ELSE IF Len(s) >= Len(sep) /\ SubSeq(s, 1, Len(sep)) = sep
    THEN <<cur>> \o SplitN(SubSeq(s, Len(sep) + 1, Len(s)), sep, n - 1, <<>>)
    ELSE SplitN(Tail(s), sep, n, Append(cur, Head(s)))

\* the loop of a decoder: one TEntity per non-empty segment, in input order;
\* a[2] is read by prepIdentifiers only (parts = 3) and panics with an index
\* out of range when a holds two strings
decodeList(aPSV, parts) ==
    LET TEntity(a) ==
            [ID |-> Atoi(a[2]).val,
             Name |-> a[1],
             URL |-> IF parts = PartsIdentifier /\ Len(a) >= 3 THEN a[3] ELSE sEmpty]
        range(list) ==
            LET a(val) == Append(SplitN(val, sPipe, parts, <<>>), sEmpty)
            IN  [panic |-> parts = PartsIdentifier
                           /\ \E i \in 1..Len(list) : Len(a(list[i])) < 3,
                 val |-> [i \in 1..Len(list) |-> TEntity(a(list[i]))]]
    IN  range(SelectSeq(SplitN(aPSV, sCommaSpace, -1, <<>>), LAMBDA val : 0 # Len(val)))

\* insertionSort_func on data[1..i]: data[i] moves left while it is less
RECURSIVE insertionSort(_, _, _)
insertionSort(data, i, j) ==
    IF i > Len(data) THEN data
    ELSE IF j > 1 /\ Less(data[j].Name, data[j - 1].Name)
    THEN insertionSort([data EXCEPT ![j] = data[j - 1], ![j - 1] = data[j]], i, j - 1)
    ELSE insertionSort(data, i + 1, i + 1)

\* the ShellSort pass of quickSort_func: data[i] and data[i - ShellGap] swap
\* when they are out of order
RECURSIVE shellPass(_, _)
shellPass(data, i) ==
    IF i > Len(data) THEN data
    ELSE IF Less(data[i].Name, data[i - ShellGap].Name)
    THEN shellPass([data EXCEPT ![i] = data[i - ShellGap], ![i - ShellGap] = data[i]],
                   i + 1)
    ELSE shellPass(data, i + 1)

\* the sort.Slice implementations a build links: quickSort_func up to Go 1.18,
\* pdqsort_func from Go 1.19 on
SortImpls == {"quickSort", "pdqsort"}

\* sort.Slice by Name on a slice of at most 12 elements
sortSlice(data, impl) ==
    IF impl = "quickSort"
    THEN insertionSort(shellPass(data, ShellGap + 1), 2, 2)
    ELSE insertionSort(data, 2, 2)

\* the body the five list decoders share: [panic, val]
prepList(aPSV, parts, impl) ==
    LET sorted(result) ==
            IF result.panic THEN [panic |-> TRUE, val |-> <<>>]
            ELSE IF 1 < Len(result.val)
            THEN [panic |-> FALSE, val |-> sortSlice(result.val, impl)]
            ELSE result
    IN  sorted(decodeList(aPSV, parts))

prepAuthors(aAuthor, impl) == prepList(aAuthor, PartsEntity, impl)

prepFormats(aFormat, impl) == prepList(aFormat, PartsEntity, impl)

prepIdentifiers(aIdentifier, impl) == prepList(aIdentifier, PartsIdentifier, impl)

prepLanguages(aLanguage, impl) == prepList(aLanguage, PartsEntity, impl)

prepTags(aTag, impl) == prepList(aTag, PartsEntity, impl)

\* prepPublisher: the first entity, or nil
prepPublisher(aPublisher) ==
    LET first(result) ==
            IF result = <<>> THEN [nil |-> TRUE, ID |-> 0, Name |-> sEmpty]
            ELSE [nil |-> FALSE, ID |-> result[1].ID, Name |-> result[1].Name]
    IN  first(decodeList(aPublisher, PartsEntity).val)

\* prepSeries: the same code for the series column
prepSeries(aSeries) == prepPublisher(aSeries)

(***************************************************************************)
(* The SQL clause composer (db/queries.go).  A clause is a sequence of     *)
(* pieces of text: the literals of the code, the column names, and the     *)
(* characters of every number that is formatted into it.                   *)
(***************************************************************************)
\* the JOIN clauses of having(), by entity name; "%d" is the verb of the id
quHaving ==
    LET sAuthors == <<"a", "u", "t", "h", "o", "r", "s">>
        sFormat == <<"f", "o", "r", "m", "a", "t">>
        sLanguages == <<"l", "a", "n", "g", "u", "a", "g", "e", "s">>
    IN  (sAll :> <<>>)
        @@ (sAuthors :>
              <<"JOIN books_authors_link a ON(a.book = b.id) WHERE (a.author = ",
                "%d", ") ">>)
        @@ (sFormat :>
              <<"JOIN data d ON(b.id = d.book) JOIN data dd ON (d.format = dd.format) WHERE (dd.id = ",
                "%d", ") ">>)
        @@ (sLanguages :>
              <<"JOIN books_languages_link l ON(l.book = b.id) WHERE (l.lang_code = ",
                "%d", ") ">>)
        @@ (sPublisher :>
              <<"JOIN books_publishers_link p ON(p.book = b.id) WHERE (p.publisher = ",
                "%d", ") ">>)
        @@ (sSeries :>
              <<"JOIN books_series_link s ON(s.book = b.id) WHERE (s.series = ",
                "%d", ") ">>)
        @@ (sTags :>
              <<"JOIN books_tags_link t ON(t.book = b.id) WHERE (t.tag = ", "%d", ") ">>)

\* having: a map lookup of a missing key gives the empty string, and
\* fmt.Sprintf reports an argument that no verb of the format consumes as
\* %!(EXTRA type=value), the type written as %T writes it
having(aEntity, aID) ==
    LET Sprintf(format, a) ==
            IF \E i \in 1..Len(format) : format[i] = "%d"
            THEN LET i == CHOOSE i \in 1..Len(format) : format[i] = "%d"
                 IN  SubSeq(format, 1, i - 1) \o FormatInt(a)
                     \o SubSeq(format, i + 1, Len(format))
            ELSE format \o <<"%!(EXTRA ", "db.TID", "=">> \o FormatInt(a) \o <<")">>
        lookup(key) == IF key \in DOMAIN quHaving THEN quHaving[key] ELSE <<>>
    IN  IF 0 = Len(aEntity) \/ sAll = aEntity \/ 0 = aID
        THEN <<>>
        ELSE Sprintf(lookup(aEntity), aID)

\* limit: both numbers are converted to int64 before they are formatted
limit(aStart, aLength) ==
    LET int64(n) == IF n >= UintMod \div 2 THEN n - UintMod ELSE n
    IN  <<"LIMIT ">> \o FormatInt(int64(aStart)) \o <<",">> \o FormatInt(int64(aLength))

\* orderBy that leaves the last column without the direction
orderByLeading(aOrder, aDescending) ==
    LET desc == IF aDescending THEN <<" DESC">> ELSE <<>>
        c(column) == <<column>> \o desc
        s == <<", ">>
        result ==
            CASE aOrder = qoSortByAcquisition ->
                   c("b.timestamp") \o s \o c("b.pubdate") \o s \o <<"b.author_sort">>
              [] aOrder = qoSortByAuthor -> c("b.author_sort") \o s \o <<"b.pubdate">>
              [] aOrder = qoSortByLanguage ->
                   c("languages") \o s \o c("b.author_sort") \o s \o <<"b.sort">>
              [] aOrder = qoSortByPublisher ->
                   c("publisher") \o s \o c("b.author_sort") \o s \o <<"b.sort">>
              [] aOrder = qoSortByRating ->
                   c("rating") \o s \o c("b.author_sort") \o s \o <<"b.sort">>
              [] aOrder = qoSortBySeries ->
                   c("series") \o s \o c("b.series_index") \o s \o <<"b.sort">>
              [] aOrder = qoSortBySize -> c("size") \o s \o <<"b.author_sort">>
              [] aOrder = qoSortByTags -> c("tags") \o s \o <<"b.author_sort">>
              [] aOrder = qoSortByTime ->
                   c("b.pubdate") \o s \o c("b.timestamp") \o s \o <<"b.author_sort">>
              [] aOrder = qoSortByTitle -> c("b.sort") \o s \o <<"b.author_sort">>
              [] OTHER -> <<>>
    IN  IF aOrder \in qoSortByAcquisition..qoSortByTitle
        THEN <<" ORDER BY ">> \o result \o <<>> \o <<" ">>
        ELSE <<>>

\* orderBy: the ORDER BY clause of a sort key, empty for every other value
orderBy(aOrder, aDescending) ==
    LET desc == IF aDescending THEN <<" DESC">> ELSE <<>>
        c(column) == <<column>> \o desc
        s == <<", ">>
        result ==
            CASE aOrder = qoSortByAcquisition ->
                   c("b.timestamp") \o s \o c("b.pubdate") \o s \o <<"b.author_sort">>
              [] aOrder = qoSortByAuthor -> c("b.author_sort") \o s \o <<"b.pubdate">>
              [] aOrder = qoSortByLanguage ->
                   c("languages") \o s \o c("b.author_sort") \o s \o <<"b.sort">>
              [] aOrder = qoSortByPublisher ->
                   c("publisher") \o s \o c("b.author_sort") \o s \o <<"b.sort">>
              [] aOrder = qoSortByRating ->
                   c("rating") \o s \o c("b.author_sort") \o s \o <<"b.sort">>
              [] aOrder = qoSortBySeries ->
                   c("series") \o s \o c("b.series_index") \o s \o <<"b.sort">>
              [] aOrder = qoSortBySize -> c("size") \o s \o <<"b.author_sort">>
              [] aOrder = qoSortByTags -> c("tags") \o s \o <<"b.author_sort">>
              [] aOrder = qoSortByTime ->
                   c("b.pubdate") \o s \o c("b.timestamp") \o s \o <<"b.author_sort">>
              [] aOrder = qoSortByTitle -> c("b.sort") \o s \o <<"b.author_sort">>
              [] OTHER -> <<>>
    IN  IF aOrder \in qoSortByAcquisition..qoSortByTitle
        THEN <<" ORDER BY ">> \o result \o desc \o <<" ">>
        ELSE <<>>

(***************************************************************************)
(* The query layer.  A store outcome says how the environment answers one  *)
(* operation:                                                              *)
(*   countErr   dbSqliteDB.Query fails for the count query                 *)
(*   countRow   rows.Next() of the count query is true                     *)
(*   count      the number the count row holds                             *)
(*   detailErr  dbSqliteDB.Query fails for the detail query                *)
(*   rows       the number of rows of the detail query                     *)
(*   malformed  the identifiers column of the rows holds a segment         *)
(*              without '|'                                                *)
(*   policy     what BookFieldVisible answers for each field name          *)
(*   impl       the sort.Slice implementation of the build                 *)
(* The log of an operation holds one entry per store query: whether it     *)
(* failed, and whether the cursor it returned was closed before the        *)
(* operation returned.                                                     *)
(***************************************************************************)
ErrNil == "nil"
ErrStore == "store error"
ErrNoDocuments == "No documents found"

\* the field names doQueryAll asks the visibility policy about
VisibilityKeys ==
    {"authors", "author_sort", "comments", "formats", "identifiers", "languages",
     "#pages", "path", "pubdate", "publisher", "rating", "series", "tags",
     "timestamp", "title", "sort", "size", "uuid"}

\* BookFieldVisible: (visible, err) as the policy pol answers for aName
BookFieldVisible(pol, aName) == pol[aName]

\* NewDocument: the fields the visibility policy governs, and the ID; a
\* list of entities is a pointer, nil in a new document
NewDocument ==
    LET NilEntities == [nil |-> TRUE, val |-> <<>>]
        NilEntity == [nil |-> TRUE, ID |-> 0, Name |-> sEmpty]
    IN
    [ID |-> 0, Title |-> sEmpty, titleSort |-> sEmpty, authorSort |-> sEmpty,
     authors |-> NilEntities, comments |-> sEmpty, formats |-> NilEntities,
     identifiers |-> NilEntities, languages |-> NilEntities, Pages |-> 0,
     path |-> sEmpty, pubdate |-> 0, publisher |-> NilEntity, Rating |-> 0,
     series |-> NilEntity, tags |-> NilEntities, timestamp |-> 0, Size |-> 0,
     uuid |-> sEmpty]

\* the columns of the i-th row of a detail query; pages is the number the
\* row's metadata.opf holds (prepPages), times are counted from the zero time
Row(i, st) ==
    [ID |-> i, Title |-> <<"T">>, titleSort |-> <<"T">>, authorSort |-> <<"A">>,
     authors |-> <<"B", "|", "2", ",", " ", "A", "|", "1">>, comments |-> <<"x">>,
     formats |-> <<"A", "|", "1">>,
     identifiers |-> IF st.malformed THEN <<"x">> ELSE <<"A", "|", "1", "|", "u">>,
     languages |-> <<"A", "|", "1">>, pages |-> 9, path |-> <<"x">>, pubdate |-> 1,
     publisher |-> <<"A", "|", "1">>, Rating |-> 2, series |-> <<"B", "|", "2">>,
     tags |-> <<"A", "|", "1">>, timestamp |-> 1, Size |-> 3, uuid |-> <<"u">>]

\* the loop body that asks for authors and title only, without the fallback
MaterializeNoFallback(row, st) ==
    LET visible(aName) == BookFieldVisible(st.policy, aName).visible
        list(r) == [nil |-> FALSE, val |-> r.val]
        ids == prepIdentifiers(row.identifiers, st.impl)
    IN  [panic |-> visible("identifiers") /\ ids.panic,
         doc |->
           [ID |-> row.ID,
            titleSort |-> row.titleSort,
            authorSort |-> row.authorSort,
            authors |-> IF visible("authors")
                        THEN list(prepAuthors(row.authors, st.impl))
                        ELSE NewDocument.authors,
            comments |-> IF ~visible("comments") THEN sEmpty ELSE row.comments,
            formats |-> IF visible("formats")
                        THEN list(prepFormats(row.formats, st.impl))
                        ELSE NewDocument.formats,
            identifiers |-> IF visible("identifiers") THEN list(ids)
                            ELSE NewDocument.identifiers,
            languages |-> IF visible("languages")
                          THEN list(prepLanguages(row.languages, st.impl))
                          ELSE NewDocument.languages,
            Pages |-> IF visible("#pages") THEN row.pages ELSE NewDocument.Pages,
            path |-> IF ~visible("path") THEN sEmpty ELSE row.path,
            pubdate |-> IF ~visible("pubdate") THEN 0 ELSE row.pubdate,
            publisher |-> IF visible("publisher") THEN prepPublisher(row.publisher)
                          ELSE NewDocument.publisher,
            Rating |-> IF ~visible("rating") THEN 0 ELSE row.Rating,
            series |-> IF visible("series") THEN prepSeries(row.series)
                       ELSE NewDocument.series,
            tags |-> IF visible("tags") THEN list(prepTags(row.tags, st.impl))
                     ELSE NewDocument.tags,
            timestamp |-> IF ~visible("timestamp") THEN 0 ELSE row.timestamp,
            Title |-> IF ~visible("title") THEN sEmpty
                      ELSE row.Title,
            Size |-> IF ~visible("size") THEN 0 ELSE row.Size,
            uuid |-> IF ~visible("uuid") THEN sEmpty ELSE row.uuid]]

\* the body of the rows.Next() loop of doQueryAll: [panic, doc]
Materialize(row, st) ==
    LET visible(aName) == BookFieldVisible(st.policy, aName).visible
        list(r) == [nil |-> FALSE, val |-> r.val]
        ids == prepIdentifiers(row.identifiers, st.impl)
    IN  [panic |-> visible("identifiers") /\ ids.panic,
         doc |->
           [ID |-> row.ID,
            titleSort |-> row.titleSort,
            authorSort |-> row.authorSort,
            authors |-> IF visible("authors") \/ visible("author_sort")
                        THEN list(prepAuthors(row.authors, st.impl))
                        ELSE NewDocument.authors,
            comments |-> IF ~visible("comments") THEN sEmpty ELSE row.comments,
            formats |-> IF visible("formats")
                        THEN list(prepFormats(row.formats, st.impl))
                        ELSE NewDocument.formats,
            identifiers |-> IF visible("identifiers") THEN list(ids)
                            ELSE NewDocument.identifiers,
            languages |-> IF visible("languages")
                          THEN list(prepLanguages(row.languages, st.impl))
                          ELSE NewDocument.languages,
            Pages |-> IF visible("#pages") THEN row.pages ELSE NewDocument.Pages,
            path |-> IF ~visible("path") THEN sEmpty ELSE row.path,
            pubdate |-> IF ~visible("pubdate") THEN 0 ELSE row.pubdate,
            publisher |-> IF visible("publisher") THEN prepPublisher(row.publisher)
                          ELSE NewDocument.publisher,
            Rating |-> IF ~visible("rating") THEN 0 ELSE row.Rating,
            series |-> IF visible("series") THEN prepSeries(row.series)
                       ELSE NewDocument.series,
            tags |-> IF visible("tags") THEN list(prepTags(row.tags, st.impl))
                     ELSE NewDocument.tags,
            timestamp |-> IF ~visible("timestamp") THEN 0 ELSE row.timestamp,
            Title |-> IF ~(visible("title") \/ visible("sort")) THEN sEmpty
                      ELSE row.Title,
            Size |-> IF ~visible("size") THEN 0 ELSE row.Size,
            uuid |-> IF ~visible("uuid") THEN sEmpty ELSE row.uuid]]

\* a *TDocList: the nil pointer, or a list of documents
NilList == [nil |-> TRUE, docs |-> <<>>]

\* doQueryAll that closes its cursor after the loop instead of deferring it
doQueryAllLate(st, log) ==
    LET loop(docs) ==
            LET panic == \E i \in 1..st.rows : docs[i].panic
            IN  [rList |-> IF panic THEN NilList
                           ELSE [nil |-> FALSE,
                                 docs |-> [i \in 1..st.rows |-> docs[i].doc]],
                 rErr |-> ErrNil,
                 panic |-> panic,
                 db |-> Append(log, [query |-> "detail", err |-> FALSE,
                                     closed |-> ~panic])]
    IN  IF st.detailErr
        THEN [rList |-> NilList, rErr |-> ErrStore, panic |-> FALSE,
              db |-> Append(log, [query |-> "detail", err |-> TRUE, closed |-> FALSE])]
        ELSE loop([i \in 1..st.rows |-> Materialize(Row(i, st), st)])

\* doQueryAll: [rList, rErr, panic, db]; the deferred rows.Close() runs on
\* the return and on a panic of the loop
doQueryAll(st, log) ==
    LET loop(docs) ==
            LET panic == \E i \in 1..st.rows : docs[i].panic
            IN  [rList |-> IF panic THEN NilList
                           ELSE [nil |-> FALSE,
                                 docs |-> [i \in 1..st.rows |-> docs[i].doc]],
                 rErr |-> ErrNil,
                 panic |-> panic,
                 db |-> Append(log, [query |-> "detail", err |-> FALSE,
                                     closed |-> TRUE])]
    IN  IF st.detailErr
        THEN [rList |-> NilList, rErr |-> ErrStore, panic |-> FALSE,
              db |-> Append(log, [query |-> "detail", err |-> TRUE, closed |-> FALSE])]
        ELSE loop([i \in 1..st.rows |-> Materialize(Row(i, st), st)])

\* the count query of QueryBy and QuerySearch: [rCount, db]
CountQuery(st) ==
    IF st.countErr
    THEN [rCount |-> 0, db |-> <<[query |-> "count", err |-> TRUE, closed |-> FALSE]>>]
    ELSE [rCount |-> IF st.countRow THEN st.count ELSE 0,
          db |-> <<[query |-> "count", err |-> FALSE, closed |-> TRUE]>>]

\* QueryBy that runs the detail query whatever the count is
QueryByAlways(aOptions, st) ==
    LET c == CountQuery(st)
        d == doQueryAll(st, c.db)
    IN  [rCount |-> c.rCount, rList |-> d.rList, rErr |-> d.rErr, panic |-> d.panic,
         db |-> d.db]

\* QueryBy: [rCount, rList, rErr, panic, db]
QueryBy(aOptions, st) ==
    LET c == CountQuery(st)
        d == doQueryAll(st, c.db)
    IN  IF 0 < c.rCount
        THEN [rCount |-> c.rCount, rList |-> d.rList, rErr |-> d.rErr,
              panic |-> d.panic, db |-> d.db]
        ELSE [rCount |-> c.rCount, rList |-> NilList, rErr |-> ErrNil,
              panic |-> FALSE, db |-> c.db]

\* QuerySearch that runs the detail query whatever the count is
QuerySearchEager(aOptions, st) ==
    LET c == CountQuery(st)
        d == doQueryAll(st, c.db)
    IN  [rCount |-> c.rCount, rList |-> d.rList,
         rErr |-> IF 0 < c.rCount THEN d.rErr ELSE ErrNoDocuments, panic |-> d.panic,
         db |-> d.db]

\* QuerySearch that reports no error for an empty result
QuerySearchSilent(aOptions, st) ==
    LET c == CountQuery(st)
        d == doQueryAll(st, c.db)
    IN  IF 0 < c.rCount
        THEN [rCount |-> c.rCount, rList |-> d.rList, rErr |-> d.rErr,
              panic |-> d.panic, db |-> d.db]
        ELSE [rCount |-> c.rCount, rList |-> NilList, rErr |-> ErrNil,
              panic |-> FALSE, db |-> c.db]

\* QuerySearch: [rCount, rList, rErr, panic, db]
QuerySearch(aOptions, st) ==
    LET c == CountQuery(st)
        d == doQueryAll(st, c.db)
    IN  IF 0 < c.rCount
        THEN [rCount |-> c.rCount, rList |-> d.rList, rErr |-> d.rErr,
              panic |-> d.panic, db |-> d.db]
        ELSE [rCount |-> c.rCount, rList |-> NilList, rErr |-> ErrNoDocuments,
              panic |-> FALSE, db |-> c.db]

\* a nil *TDocument
NilDocument == [nil |-> TRUE, doc |-> NewDocument]

\* QueryDocMini: [rDoc, panic, db]; ID, formats, path and Title of the first row
QueryDocMini(aID, st) ==
    IF st.detailErr
    THEN [rDoc |-> NilDocument, panic |-> FALSE,
          db |-> <<[query |-> "detail", err |-> TRUE, closed |-> FALSE]>>]
    ELSE [rDoc |-> IF st.rows > 0
                   THEN [nil |-> FALSE,
                         doc |-> [NewDocument EXCEPT
                                    !.ID = Row(1, st).ID,
                                    !.formats = [nil |-> FALSE,
                                                 val |-> prepFormats(Row(1, st).formats,
                                                                     st.impl).val],
                                    !.path = Row(1, st).path,
                                    !.Title = Row(1, st).Title]]
                   ELSE NilDocument,
          panic |-> FALSE,
          db |-> <<[query |-> "detail", err |-> FALSE, closed |-> TRUE]>>]

\* QueryDocument: [rDoc, panic, db]; len(*list) panics with a nil pointer
\* dereference when doQueryAll returned its error and no list
QueryDocument(aID, st) ==
    LET d == doQueryAll(st, <<>>)
    IN  IF d.panic \/ d.rList.nil
        THEN [rDoc |-> NilDocument, panic |-> TRUE, db |-> d.db]
        ELSE IF 0 < Len(d.rList.docs)
        THEN [rDoc |-> [nil |-> FALSE, doc |-> d.rList.docs[1]], panic |-> FALSE,
              db |-> d.db]
        ELSE [rDoc |-> NilDocument, panic |-> FALSE, db |-> d.db]

\* QueryIDs: [rList, rErr, panic, db]; documents with ID and path only
QueryIDs(st) ==
    IF st.detailErr
    THEN [rList |-> NilList, rErr |-> ErrStore, panic |-> FALSE,
          db |-> <<[query |-> "detail", err |-> TRUE, closed |-> FALSE]>>]
    ELSE [rList |-> [nil |-> FALSE,
                     docs |-> [i \in 1..st.rows |->
                                 [NewDocument EXCEPT !.ID = Row(i, st).ID,
                                                     !.path = Row(i, st).path]]],
          rErr |-> ErrNil, panic |-> FALSE,
          db |-> <<[query |-> "detail", err |-> FALSE, closed |-> TRUE]>>]

\* QueryCustomColumns: [rList, rErr, panic, db]; one TCustomColumn per row
QueryCustomColumns(st) ==
    IF st.detailErr
    THEN [rList |-> NilList, rErr |-> ErrStore, panic |-> FALSE,
          db |-> <<[query |-> "detail", err |-> TRUE, closed |-> FALSE]>>]
    ELSE [rList |-> [nil |-> FALSE, docs |-> [i \in 1..st.rows |-> [ID |-> i]]],
          rErr |-> ErrNil, panic |-> FALSE,
          db |-> <<[query |-> "detail", err |-> FALSE, closed |-> TRUE]>>]

(***************************************************************************)
(* Inputs                                                                  *)
(***************************************************************************)
sA == <<"a">>
sSpaceA == <<" ", "a">>
sX == <<"x">>
sNine == <<"9">>
sMinusOne == <<"-", "1">>

\* the values a form field takes when it is present
ParamValues ==
    [guilang |-> {sEn, sDe},
     layout |-> {sGrid},
     limitlength |-> {sNine, sMinusOne, sX},
     matching |-> {sA, sSpaceA},
     order |-> {sDescending, sAscending},
     sortby |-> {sTitle, sX},
     theme |-> {sDark},
     virtlib |-> {sDash, sLib}]

EmptyRequest == [n \in ParamNames |-> sEmpty]

\* the requests that carry at most k form values
RECURSIVE RequestsWith(_)
RequestsWith(k) ==
    IF k = 0 THEN {EmptyRequest}
    ELSE LET R == RequestsWith(k - 1)
         IN  R \cup UNION {UNION {{[r EXCEPT ![n] = v] : v \in ParamValues[n]} :
                                  n \in ParamNames} : r \in R}

Requests == RequestsWith(MaxParams)

\* requests that touch the page size and the sort direction only
PageRequests ==
    {r \in RequestsWith(2) :
        \A n \in ParamNames \ {"limitlength", "order"} : r[n] = sEmpty}

\* the request that names, for every form field, the value q holds: an
\* empty Matching travels as an empty form value, an empty VirtLib as the
\* entry - of the virtual-library selection
SameRequest(q) ==
    LET SortNames == <<sAcquisition, sAuthor, sLanguage, sPublisher, sRating, sSeries,
                       sSize, sTags, sTime, sTitle>>
    IN  [guilang |-> IF q.GuiLang = qoLangEnglish THEN sEn ELSE sDe,
         layout |-> IF q.Layout = qoLayoutGrid THEN sGrid ELSE sEmpty,
         limitlength |-> FormatUint(q.LimitLength),
         matching |-> q.Matching,
         order |-> IF q.Descending THEN sDescending ELSE sAscending,
         sortby |-> IF q.SortBy \in 1..Len(SortNames) THEN SortNames[q.SortBy] ELSE sEmpty,
         theme |-> IF q.Theme = qoThemeDark THEN sDark ELSE sEmpty,
         virtlib |-> IF q.VirtLib = sEmpty THEN sDash ELSE q.VirtLib]

\* Options values a request starts from: Scan reads every field from the
\* serialized string the request carries, and trims Matching and VirtLib.
StartOptions ==
    {[ID |-> e[2], Descending |-> d, Entity |-> e[1], GuiLang |-> g, Layout |-> g,
      LimitLength |-> ll, LimitStart |-> ls, Matching |-> m, QueryCount |-> 0,
      SortBy |-> sb, Theme |-> g, VirtLib |-> v] :
        e \in {<<sEmpty, 0>>, <<sTag, 7>>, <<sTag, 0>>},
        d \in BOOLEAN, g \in {0, 1}, ll \in {DefaultLimitLength, 9},
        ls \in {0, DefaultLimitLength}, m \in {sEmpty, sA},
        sb \in {qoSortByAcquisition, qoSortByTitle}, v \in {sEmpty, sLib}}

\* an options value that differs from NewQueryOptions in every field Update sets
OtherOptions ==
    [ID |-> 7, Descending |-> FALSE, Entity |-> sTag, GuiLang |-> 1, Layout |-> 1,
     LimitLength |-> 9, LimitStart |-> 9, Matching |-> sA, QueryCount |-> 0,
     SortBy |-> qoSortByTitle, Theme |-> 1, VirtLib |-> sLib]

\* every pair of LimitStart and LimitLength
LimitOptions ==
    {[NewQueryOptions EXCEPT !.LimitStart = s, !.LimitLength = l] :
        s \in 0..(UintMod - 1), l \in 0..(UintMod - 1)}

\* options values the query operations are called with
QueryOptions ==
    {NewQueryOptions,
     handleGET(NewQueryOptions, sTag, [ok |-> TRUE, id |-> 7]),
     [NewQueryOptions EXCEPT !.Matching = sA],
     [NewQueryOptions EXCEPT !.LimitStart = DefaultLimitLength]}

\* the packed columns the decoders are called with, joined by ", " as
\* group_concat joins them: up to MaxOdd segments that are well-formed, lack
\* a part, hold no number or hold a number outside the int range, and up to
\* MaxSegs well-formed segments, two of them with the same name
PackedInputs ==
    LET OddSegments ==
            {sEmpty, <<"A">>, <<"A", "|", "1">>, <<"B", "|", "2">>, <<"A", "|", "x">>,
             sPipe, <<"B", "|", "2", "|", "u">>, <<"A", "|", "9", "9">>}
        NamedSegments == {<<"A", "|", "1">>, <<"B", "|", "2">>, <<"B", "|", "3">>}
        RECURSIVE Join(_)
        Join(segs) ==
            IF Len(segs) = 0 THEN sEmpty
            ELSE IF Len(segs) = 1 THEN segs[1]
            ELSE segs[1] \o sCommaSpace \o Join(Tail(segs))
    IN  {Join(segs) : segs \in UNION {[1..k -> OddSegments] : k \in 0..MaxOdd}}
        \cup {Join(segs) : segs \in UNION {[1..k -> NamedSegments] : k \in 1..MaxSegs}}

\* the search terms escapeQuery is called with: every string of at most
\* MaxRaw bytes, the escaped ones, the apostrophe and a letter among them
RawInputs ==
    UNION {[1..k -> {"a", "'", "\"", "\\", "LF", "CR", "SUB"}] : k \in 0..MaxRaw}

\* the policy that shows every field
AllVisible == [k \in VisibilityKeys |-> [visible |-> TRUE, err |-> FALSE]]

\* the policies doQueryAll runs under: every field shown, one field answered
\* otherwise (hidden, or an error with either boolean), a field and its
\* fallback answered otherwise, every field hidden
Policies ==
    LET Answers == [visible : BOOLEAN, err : BOOLEAN]
    IN  {[AllVisible EXCEPT ![k] = a] : k \in VisibilityKeys, a \in Answers}
        \cup {[AllVisible EXCEPT ![p[1]] = a, ![p[2]] = b] :
                  p \in {<<"authors", "author_sort">>, <<"title", "sort">>},
                  a \in Answers, b \in Answers}
        \cup {[k \in VisibilityKeys |-> [visible |-> FALSE, err |-> FALSE]]}

\* how the store answers QueryBy and QuerySearch
StoreOutcomes ==
    [countErr : BOOLEAN, countRow : BOOLEAN, count : 0..MaxCount,
     detailErr : BOOLEAN, rows : 0..MaxCount, malformed : {FALSE},
     policy : {AllVisible}, impl : SortImpls]

\* how the store and the policy answer the operations that run one query
RowOutcomes ==
    [countErr : {FALSE}, countRow : {FALSE}, count : {0},
     detailErr : BOOLEAN, rows : 0..MaxCount, malformed : BOOLEAN,
     policy : Policies, impl : SortImpls]

\* the strings Scan is called with: a serialized options value and every
\* truncation of it, the same with the virtual library written as - and as
\* "-", a garbled string, and one with a number outside the range of uint8
ScanInputs ==
    LET full == String(OtherOptions)
        none == String([OtherOptions EXCEPT !.VirtLib = sEmpty])
    IN  {SubSeq(full, 1, k) : k \in 0..Len(full)}
        \cup {SubSeq(none, 1, Len(none) - 3) \o <<"-", "|">>,
               String([OtherOptions EXCEPT !.VirtLib = sDash]),
               sX,
               <<"|", "7", "|", "t", "|", "\"", "\"", "|", "9", "9", "9", "|">>}

NoStore ==
    [countErr |-> FALSE, countRow |-> FALSE, count |-> 0, detailErr |-> FALSE,
     rows |-> 0, malformed |-> FALSE, policy |-> AllVisible, impl |-> "pdqsort"]

NoReturn == [rCount |-> 0, rList |-> NilList, rErr |-> ErrNil, panic |-> FALSE]

\* no decoder and no escapeQuery call has returned yet
NoResult == [panic |-> FALSE, val |-> <<>>]

(***************************************************************************)
(* Actions                                                                 *)
(***************************************************************************)
\* one operation on the options: the new value, the operation and its request
Step(q, name, r) ==
    /\ qo' = q
    /\ pre' = qo
    /\ pre2' = pre
    /\ op' = name
    /\ op2' = op
    /\ req' = r

DoUpdate(r) ==
    /\ Step(Update(qo, r), "Update", r)
    /\ twin' = Update(twin, r)
    /\ resized' = (resized \/ Update(qo, r).LimitLength # qo.LimitLength)
    /\ steplen' = IF Update(qo, r).LimitLength # qo.LimitLength
                     /\ UpdateLimitLength(qo, r).LimitStart # qo.LimitStart
                  THEN qo.LimitLength
                  ELSE steplen
    /\ UNCHANGED <<ovf, store, db, ret, arg, res>>

DoIncLimit ==
    /\ Step(IncLimit(qo), "IncLimit", EmptyRequest)
    /\ steplen' = qo.LimitLength
    /\ ovf' = (ovf \/ qo.LimitStart + qo.LimitLength >= UintMod)
    /\ UNCHANGED <<twin, resized, store, db, ret, arg, res>>

DoDecLimit ==
    /\ Step(DecLimit(qo), "DecLimit", EmptyRequest)
    /\ steplen' = qo.LimitLength
    /\ UNCHANGED <<twin, ovf, resized, store, db, ret, arg, res>>

\* the options travel to the next request as String() and come back by Scan
DoScan ==
    /\ Step(Scan(ZeroOptions, String(qo)), "Scan", EmptyRequest)
    /\ arg' = String(qo)
    /\ UNCHANGED <<twin, steplen, ovf, resized, store, db, ret, res>>

\* Scan of a string the request carries, into the options value at hand
DoScanInput(aString) ==
    /\ Step(Scan(qo, aString), "ScanInput", EmptyRequest)
    /\ arg' = aString
    /\ UNCHANGED <<twin, steplen, ovf, resized, store, db, ret, res>>

DoQueryBy(st) ==
    LET r == QueryBy(qo, st)
    IN  /\ Step(qo, "QueryBy", EmptyRequest)
        /\ store' = st
        /\ db' = r.db
        /\ ret' = [rCount |-> r.rCount, rList |-> r.rList, rErr |-> r.rErr,
                   panic |-> r.panic]
        /\ UNCHANGED <<twin, steplen, ovf, resized, arg, res>>

DoQuerySearch(st) ==
    LET r == QuerySearch(qo, st)
    IN  /\ Step(qo, "QuerySearch", EmptyRequest)
        /\ store' = st
        /\ db' = r.db
        /\ ret' = [rCount |-> r.rCount, rList |-> r.rList, rErr |-> r.rErr,
                   panic |-> r.panic]
        /\ UNCHANGED <<twin, steplen, ovf, resized, arg, res>>

\* the entity case of handleGET on the options getQueryOptions returned
DoHandleGET(path, tail) ==
    /\ Step(handleGET(qo, path, tail), "handleGET", EmptyRequest)
    /\ UNCHANGED <<twin, steplen, ovf, resized, store, db, ret, arg, res>>

\* one call of a decoder; the two singular decoders do not sort, and what
\* they return is held as the one element of val
DoDecode(name, aPSV, impl) ==
    /\ op' = name
    /\ arg' = aPSV
    /\ res' = CASE name = "prepAuthors" -> prepAuthors(aPSV, impl)
                 [] name = "prepFormats" -> prepFormats(aPSV, impl)
                 [] name = "prepIdentifiers" -> prepIdentifiers(aPSV, impl)
                 [] name = "prepLanguages" -> prepLanguages(aPSV, impl)
                 [] name = "prepTags" -> prepTags(aPSV, impl)
                 [] name = "prepPublisher" ->
                      [panic |-> FALSE, val |-> <<prepPublisher(aPSV)>>]
                 [] name = "prepSeries" -> [panic |-> FALSE, val |-> <<prepSeries(aPSV)>>]
    /\ UNCHANGED <<qo, twin, pre, pre2, op2, req, steplen, ovf, resized, store, db, ret>>

DoEscape(aSource) ==
    /\ op' = "escapeQuery"
    /\ arg' = aSource
    /\ res' = [panic |-> FALSE, val |-> escapeQuery(aSource)]
    /\ UNCHANGED <<qo, twin, pre, pre2, op2, req, steplen, ovf, resized, store, db, ret>>

\* one call of a clause function of the composer
DoClause(name, a, b) ==
    /\ Step(qo, name, EmptyRequest)
    /\ arg' = <<a, b>>
    /\ res' = [panic |-> FALSE,
               val |-> CASE name = "having" -> having(a, b)
                         [] name = "orderBy" -> orderBy(a, b)
                         [] name = "limit" -> limit(a, b)]
    /\ UNCHANGED <<twin, steplen, ovf, resized, store, db, ret>>

\* one call of an operation that runs one store query
DoRowQuery(name, st) ==
    LET r == CASE name = "doQueryAll" -> doQueryAll(st, <<>>)
               [] name = "QueryDocMini" -> QueryDocMini(qo.ID, st)
               [] name = "QueryDocument" -> QueryDocument(qo.ID, st)
               [] name = "QueryIDs" -> QueryIDs(st)
               [] name = "QueryCustomColumns" -> QueryCustomColumns(st)
    IN  /\ Step(qo, name, EmptyRequest)
        /\ store' = st
        /\ db' = r.db
        /\ ret' = [f \in DOMAIN r \ {"db"} |-> r[f]]
        /\ UNCHANGED <<twin, steplen, ovf, resized, arg, res>>

InitFrom(S) ==
    /\ qo \in S
    /\ twin = OtherOptions
    /\ pre = qo
    /\ pre2 = qo
    /\ op = "init"
    /\ op2 = "init"
    /\ req = EmptyRequest
    /\ steplen = qo.LimitLength
    /\ ovf = FALSE
    /\ resized = FALSE
    /\ store = NoStore
    /\ db = <<>>
    /\ ret = NoReturn
    /\ arg = sEmpty
    /\ res = NoResult

(***************************************************************************)
(* SpecUpdate: one Update call on every start value, then the round trip   *)
(* of the result through String and Scan; or one Scan call on every start  *)
(* value.                                                                  *)
(***************************************************************************)
InitUpdate == InitFrom(StartOptions)

NextUpdate ==
    \/ op = "init" /\ \E r \in Requests : DoUpdate(r)
    \/ op = "Update" /\ DoScan
    \/ op = "init" /\ \E aString \in ScanInputs : DoScanInput(aString)

SpecUpdate == InitUpdate /\ [][NextUpdate]_vars

(***************************************************************************)
(* SpecPage: paging from a fresh options value, with Update calls that     *)
(* change the page size.                                                   *)
(***************************************************************************)
InitPage == InitFrom({NewQueryOptions})

NextPage ==
    \/ DoIncLimit
    \/ DoDecLimit
    \/ \E r \in PageRequests : DoUpdate(r)

SpecPage == InitPage /\ [][NextPage]_vars

(***************************************************************************)
(* SpecLimit: IncLimit and DecLimit on every pair of LimitStart and        *)
(* LimitLength, two calls deep.                                            *)
(***************************************************************************)
InitLimit == InitFrom(LimitOptions)

NextLimit ==
    \/ op2 = "init" /\ DoIncLimit
    \/ op2 = "init" /\ DoDecLimit

SpecLimit == InitLimit /\ [][NextLimit]_vars

(***************************************************************************)
(* SpecQuery: one query operation against every store outcome.             *)
(***************************************************************************)
InitQuery == InitFrom(QueryOptions)

NextQuery ==
    \/ op = "init" /\ \E st \in StoreOutcomes : DoQueryBy(st)
    \/ op = "init" /\ \E st \in StoreOutcomes : DoQuerySearch(st)
    \/ /\ op = "init"
       /\ \E name \in {"doQueryAll", "QueryDocMini", "QueryDocument", "QueryIDs",
                        "QueryCustomColumns"}, st \in RowOutcomes :
             DoRowQuery(name, st)

SpecQuery == InitQuery /\ [][NextQuery]_vars

(***************************************************************************)
(* SpecFilter: Update calls with at most one form value (matching, virtlib *)
(* or sortby), interleaved with the entity assignment of handleGET.        *)
(***************************************************************************)
NextFilter ==
    \/ \E r \in {x \in RequestsWith(1) :
                  \A n \in ParamNames \ {"matching", "virtlib", "sortby"} : x[n] = sEmpty} :
          DoUpdate(r)
    \/ \E path \in {sTag, sAll}, tail \in {[ok |-> TRUE, id |-> 7], [ok |-> FALSE, id |-> 0]} :
          DoHandleGET(path, tail)

SpecFilter == InitPage /\ [][NextFilter]_vars

(***************************************************************************)
(* SpecSame: one Update call, on every start value, with the request that  *)
(* names the values the options hold.                                      *)
(***************************************************************************)
NextSame == op = "init" /\ DoUpdate(SameRequest(qo))

SpecSame == InitUpdate /\ [][NextSame]_vars

(***************************************************************************)
(* SpecClause: the clause functions of the composer, on the values the     *)
(* request handler, Update and IncLimit leave in the options and on every  *)
(* other value of their argument types.                                    *)
(***************************************************************************)
NextClause ==
    \/ /\ op = "init"
       /\ \E r \in {x \in RequestsWith(1) :
                     \A n \in ParamNames \ {"limitlength"} : x[n] = sEmpty} :
             DoUpdate(r)
    \/ op \in {"init", "Update", "IncLimit"} /\ DoIncLimit
    \/ /\ op = "init"
       /\ \E path \in {sAll, sAuthor, <<"f", "o", "r", "m", "a", "t">>, <<"l", "a", "n", "g">>,
                        sPublisher, sSeries, sTag},
             tail \in {[ok |-> TRUE, id |-> 7], [ok |-> TRUE, id |-> 12],
                        [ok |-> FALSE, id |-> 0]} :
             DoHandleGET(path, tail)
    \/ /\ op \in {"init", "handleGET"}
       /\ \E aEntity \in DOMAIN quHaving \cup {qo.Entity, sEmpty, sX}, aID \in {qo.ID, 0, 7, -1} :
             DoClause("having", aEntity, aID)
    \/ /\ op = "init"
       /\ \E aOrder \in qoSortUnsorted..(qoSortByTitle + 2), aDescending \in BOOLEAN :
             DoClause("orderBy", aOrder, aDescending)
    \/ /\ op = "init"
       /\ \E aStart \in 0..(UintMod - 1), aLength \in 0..(UintMod - 1) :
             DoClause("limit", aStart, aLength)
    \/ op \in {"Update", "IncLimit"} /\ DoClause("limit", qo.LimitStart, qo.LimitLength)

SpecClause == InitPage /\ [][NextClause]_vars

(***************************************************************************)
(* SpecDecode: the list decoders on packed columns, under either sort, and *)
(* the two singular decoders.                                              *)
(***************************************************************************)
Decoders == {"prepAuthors", "prepFormats", "prepIdentifiers", "prepLanguages", "prepTags"}

NextDecode ==
    \/ /\ op = "init"
       /\ \E name \in Decoders, aPSV \in PackedInputs, impl \in SortImpls :
             DoDecode(name, aPSV, impl)
    \/ /\ op = "init"
       /\ \E name \in {"prepPublisher", "prepSeries"}, aPSV \in PackedInputs :
             DoDecode(name, aPSV, "pdqsort")

SpecDecode == InitPage /\ [][NextDecode]_vars

(***************************************************************************)
(* SpecEscape: escapeQuery on every short search term.                     *)
(***************************************************************************)
NextEscape == op = "init" /\ \E aSource \in RawInputs : DoEscape(aSource)

SpecEscape == InitPage /\ [][NextEscape]_vars

(***************************************************************************)
(* Properties                                                              *)
(***************************************************************************)
\* s is an exact multiple of l
Multiple(s, l) == \E k \in 0..UintMod : s = k * l

\* the fields Update sets from a form value or its default
AgreeOn(a, b, fields) == \A f \in fields : a[f] = b[f]

\* C1: Scan(o.String()) on a zero-valued options object yields o in every
\* field, for every o that Update produces (SpecUpdate).
C1_RoundTrip == op = "Scan" /\ op2 = "Update" => qo = pre

\* C2: an Update call on options with non-zero LimitStart whose "matching"
\* value is non-empty and differs from the current Matching returns with
\* LimitStart = 0, ID = 0 and Entity = "" (SpecUpdate).
C2_FilterReset ==
    (/\ op = "Update"
     /\ pre.LimitStart # 0
     /\ req["matching"] # sEmpty
     /\ req["matching"] # pre.Matching)
    => (qo.LimitStart = 0 /\ qo.ID = 0 /\ qo.Entity = sEmpty)

\* C3: if Matching, SortBy, Descending or VirtLib differs after an Update
\* call from its value before the call, LimitStart is 0 after the call
\* (SpecPage).
C3_NeverStale ==
    (/\ op = "Update"
     /\ \/ qo.Matching # pre.Matching
        \/ qo.SortBy # pre.SortBy
        \/ qo.Descending # pre.Descending
        \/ qo.VirtLib # pre.VirtLib)
    => qo.LimitStart = 0

\* C4 as claimed: after Update with an empty request two options values
\* agree on GuiLang, Layout, LimitLength, Matching, Descending, SortBy,
\* Theme and VirtLib (SpecUpdate).
C4_Original ==
    (op = "Update" /\ req = EmptyRequest)
    => AgreeOn(qo, twin, {"GuiLang", "Layout", "LimitLength", "Matching",
                          "Descending", "SortBy", "Theme", "VirtLib"})

\* C4 as amended: after Update with a request that lacks guilang, layout,
\* order, sortby, theme or virtlib the governed field holds its built-in
\* default in both options values; with matching absent Matching is empty
\* unless the request selects another, known virtual library, whose
\* definition it then holds; with limitlength absent LimitLength is left as
\* it was (SpecUpdate).
C4_AbsentDefaults ==
    op = "Update" =>
        /\ req["guilang"] = sEmpty
            => qo.GuiLang = qoLangGerman /\ twin.GuiLang = qoLangGerman
        /\ req["layout"] = sEmpty
            => qo.Layout = qoLayoutList /\ twin.Layout = qoLayoutList
        /\ req["order"] = sEmpty
            => qo.Descending = FALSE /\ twin.Descending = FALSE
        /\ req["sortby"] = sEmpty
            => qo.SortBy = qoSortByAcquisition /\ twin.SortBy = qoSortByAcquisition
        /\ req["theme"] = sEmpty
            => qo.Theme = qoThemeLight /\ twin.Theme = qoThemeLight
        /\ req["virtlib"] = sEmpty
            => qo.VirtLib = sEmpty /\ twin.VirtLib = sEmpty
        /\ req["matching"] = sEmpty
            => qo.Matching =
                  IF req["virtlib"] \in DOMAIN GetVirtLibList
                     /\ req["virtlib"] # pre.VirtLib
                  THEN GetVirtLibList[req["virtlib"]]
                  ELSE sEmpty
        /\ (req["matching"] = sEmpty /\ req["virtlib"] = sEmpty)
            => twin.Matching = sEmpty
        /\ req["limitlength"] = sEmpty => qo.LimitLength = pre.LimitLength
        /\ req = EmptyRequest
            => AgreeOn(qo, twin, {"GuiLang", "Layout", "Matching", "Descending",
                                  "SortBy", "Theme", "VirtLib"})

\* C4 witness: an empty request met options that held no default anywhere,
\* and the two options values keep different page sizes.
C4_Witness ==
    /\ op = "Update"
    /\ req = EmptyRequest
    /\ pre.GuiLang = qoLangEnglish
    /\ pre.Descending
    /\ pre.SortBy = qoSortByTitle
    /\ pre.Matching = sA
    /\ pre.VirtLib = sLib
    /\ qo.LimitLength = DefaultLimitLength
    /\ twin.LimitLength # qo.LimitLength

\* C5 as claimed: in every state reached from a fresh options value by
\* IncLimit, DecLimit and Update calls, LimitStart is an exact multiple of
\* the LimitLength that was in effect at the step that produced it, and it
\* is not negative; read in the claim's favour, for the states reached
\* without a sum that left the unsigned range (SpecPage).
C5_Original == ~ovf => (qo.LimitStart >= 0 /\ Multiple(qo.LimitStart, steplen))

\* C5 as amended: LimitStart is never negative, and it is an exact multiple
\* of LimitLength as long as no Update call has changed LimitLength and no
\* IncLimit sum has exceeded the unsigned range (SpecPage).
C5_Multiple ==
    /\ qo.LimitStart \in 0..(UintMod - 1)
    /\ (~resized /\ ~ovf) => Multiple(qo.LimitStart, qo.LimitLength)

\* C5 witness: the second page after the first, reached by IncLimit alone.
C5_Witness ==
    /\ op = "IncLimit"
    /\ op2 = "IncLimit"
    /\ ~resized
    /\ ~ovf
    /\ qo.LimitStart = 2 * qo.LimitLength
    /\ qo.LimitLength > 0

\* C6: DecLimit sets LimitStart to 0 when LimitStart <= LimitLength and to
\* LimitStart - LimitLength otherwise, for every unsigned pair; the result
\* does not wrap below zero, no other field changes, and the call changes
\* nothing when LimitStart is 0 (SpecLimit).
C6_DecLimit ==
    op = "DecLimit" =>
        /\ qo = [pre EXCEPT !.LimitStart =
                    IF pre.LimitStart <= pre.LimitLength THEN 0
                    ELSE pre.LimitStart - pre.LimitLength]
        /\ qo.LimitStart \in 0..pre.LimitStart
        /\ pre.LimitStart = 0 => qo = pre

\* C6 witness: DecLimit went back by one page that was smaller than the offset.
C6_Witness ==
    /\ op = "DecLimit"
    /\ 0 < pre.LimitLength
    /\ pre.LimitLength < pre.LimitStart
    /\ qo.LimitStart = pre.LimitStart - pre.LimitLength

\* C7 as claimed: for every unsigned LimitStart and LimitLength, IncLimit
\* sets LimitStart to LimitStart + LimitLength and one DecLimit after it
\* returns LimitStart to the value before the IncLimit (SpecLimit).
C7_Original ==
    /\ op = "IncLimit" => qo.LimitStart = pre.LimitStart + pre.LimitLength
    /\ (op = "DecLimit" /\ op2 = "IncLimit") => qo.LimitStart = pre2.LimitStart

\* C7 as amended: the same for every LimitStart and LimitLength whose sum
\* stays inside the unsigned range; a larger sum wraps around (SpecLimit).
C7_IncThenDec ==
    /\ op = "IncLimit" =>
          qo.LimitStart =
              IF pre.LimitStart + pre.LimitLength < UintMod
              THEN pre.LimitStart + pre.LimitLength
              ELSE pre.LimitStart + pre.LimitLength - UintMod
    /\ (/\ op = "DecLimit"
        /\ op2 = "IncLimit"
        /\ pre2.LimitStart + pre2.LimitLength < UintMod)
       => (/\ pre.LimitStart = pre2.LimitStart + pre2.LimitLength
           /\ qo.LimitStart = pre2.LimitStart)

\* C7 witness: IncLimit then DecLimit from a page that is not the first.
C7_Witness ==
    /\ op = "DecLimit"
    /\ op2 = "IncLimit"
    /\ 0 < pre2.LimitStart
    /\ 0 < pre2.LimitLength
    /\ pre2.LimitStart + pre2.LimitLength < UintMod
    /\ qo.LimitStart = pre2.LimitStart

\* a store query of the last operation failed
StoreFailed == \E i \in 1..Len(db) : db[i].err

\* C8: whenever a store query fails inside QueryBy or QuerySearch, the count
\* query as well as the detail query, the operation returns that store
\* error as rErr (SpecQuery).
C8_StoreErrorsPropagated ==
    (op \in {"QueryBy", "QuerySearch"} /\ StoreFailed) => ret.rErr = ErrStore

\* the count query of the last operation succeeded and counted no document
CountedZero == ~store.countErr /\ store.countRow /\ store.count = 0

\* C9 as claimed: when the count query of QueryBy yields 0, QueryBy returns
\* count 0, an empty document sequence and a nil error (SpecQuery).
C9_Original ==
    (op = "QueryBy" /\ CountedZero)
    => (/\ ret.rCount = 0
        /\ ~ret.rList.nil
        /\ ret.rList.docs = <<>>
        /\ ret.rErr = ErrNil)

\* C9 as amended: when the count query of QueryBy yields 0, QueryBy returns
\* count 0, the nil document list and a nil error (SpecQuery).
C9_ZeroMatches ==
    (op = "QueryBy" /\ CountedZero)
    => (ret.rCount = 0 /\ ret.rList = NilList /\ ret.rErr = ErrNil)

\* C9 witness: a listing by tag whose count query counted no document.
C9_Witness ==
    /\ op = "QueryBy"
    /\ CountedZero
    /\ qo.Entity = sTag
    /\ qo.ID = 7
    /\ Len(db) = 1

\* C10: whenever QuerySearch obtains a count of 0 it returns the error
\* "No documents found" with a nil document list and count 0, and it
\* returns that error in no case where the count is greater than 0
\* (SpecQuery).
C10_SearchZeroIsError ==
    op = "QuerySearch" =>
        /\ ret.rCount = 0
            => ret.rErr = ErrNoDocuments /\ ret.rList = NilList
        /\ ret.rCount > 0 => ret.rErr # ErrNoDocuments

\* C10 witness: a search whose count query counted no document.
C10_Witness ==
    /\ op = "QuerySearch"
    /\ CountedZero
    /\ qo.Matching = sA
    /\ ret.rErr = ErrNoDocuments

\* the entities of the last decoder call in input order, before sorting
Decoded ==
    decodeList(arg, IF op = "prepIdentifiers" THEN PartsIdentifier ELSE PartsEntity).val

\* the non-empty segments of the last decoder call's input
Segments == SelectSeq(SplitN(arg, sCommaSpace, -1, <<>>), LAMBDA val : val # sEmpty)

\* the '|'-separated parts of a segment, padded with one empty string
PartsOf(seg) ==
    Append(SplitN(seg, sPipe, IF op = "prepIdentifiers" THEN 3 ELSE 2, <<>>), sEmpty)

\* s is an optional sign followed by decimal digits only
IsInteger(s) ==
    LET d == IF At(s, 1) \in {"-", "+"} THEN 2 ELSE 1
    IN  d <= Len(s) /\ DigitsEnd(s, d) = Len(s) + 1

\* C12: for every input string the list decoders return normally, with
\* exactly one entity per non-empty ', '-separated segment, missing parts
\* padded with the empty string and the ID 0 for a missing or non-numeric id
\* part; the empty string yields the empty sequence (SpecDecode).
C12_DecodersNeverFail ==
    op \in Decoders =>
        /\ ~res.panic
        /\ Len(res.val) = Len(Segments)
        /\ arg = sEmpty => res.val = <<>>
        /\ \A i \in 1..Len(res.val) : \E j \in 1..Len(Segments) :
              /\ res.val[i].Name = PartsOf(Segments[j])[1]
              /\ ~IsInteger(PartsOf(Segments[j])[2]) => res.val[i].ID = 0

\* C13: the sequence a list decoder returns is ascending by Name, and
\* entities of equal Name keep their relative order from the input
\* (SpecDecode).
C13_StableByName ==
    (op \in Decoders /\ ~res.panic) =>
        /\ \A i \in 1..(Len(res.val) - 1) : ~Less(res.val[i + 1].Name, res.val[i].Name)
        /\ \A e \in {Decoded[i] : i \in 1..Len(Decoded)} :
              SelectSeq(res.val, LAMBDA x : x.Name = e.Name)
              = SelectSeq(Decoded, LAMBDA x : x.Name = e.Name)

\* reading s from position p and taking each backslash together with the
\* byte after it, a double quote outside such a pair is met
RECURSIVE BareQuote(_, _)
BareQuote(s, p) ==
    IF p > Len(s) THEN FALSE
    ELSE IF s[p] = "\\" THEN BareQuote(s, p + 2)
    ELSE IF s[p] = "\"" THEN TRUE
    ELSE BareQuote(s, p + 1)

\* the bytes the claim gives for one byte of the input
EscapedAs(c) ==
    IF c \in {"LF", "CR", "\\", "\""} THEN <<"\\", c>>
    ELSE IF c = "SUB" THEN <<"\\", "Z">>
    ELSE <<c>>

\* the output from position p on is the claim's bytes for input[i..]
RECURSIVE EscapedFrom(_, _, _, _)
EscapedFrom(out, p, in, i) ==
    IF i > Len(in) THEN p = Len(out) + 1
    ELSE /\ p + Len(EscapedAs(in[i])) - 1 <= Len(out)
         /\ SubSeq(out, p, p + Len(EscapedAs(in[i])) - 1) = EscapedAs(in[i])
         /\ EscapedFrom(out, p + Len(EscapedAs(in[i])), in, i + 1)

\* C16: reading the output of escapeQuery left to right, each backslash
\* taken together with the byte after it, never meets a bare double quote;
\* newline, carriage return, backslash and double quote come out preceded
\* by one backslash, Ctrl-Z as backslash and 'Z', every other byte
\* unchanged (SpecEscape).
C16_EscapingSafe ==
    op = "escapeQuery" =>
        /\ ~BareQuote(res.val, 1)
        /\ EscapedFrom(res.val, 1, arg, 1)

\* C16 witness: a search term with a double quote and a backslash in it.
C16_Witness ==
    /\ op = "escapeQuery"
    /\ \E i, j \in 1..Len(arg) : arg[i] = "\"" /\ arg[j] = "\\"
    /\ Len(res.val) > Len(arg)
    /\ BareQuote(arg, 1)

\* C11: every row cursor a successful store Query returned is closed when
\* the operation has returned, on every exit path of QueryBy, QuerySearch,
\* doQueryAll, QueryDocMini, QueryDocument, QueryIDs and QueryCustomColumns
\* (SpecQuery).
C11_CursorsClosed ==
    op \in {"QueryBy", "QuerySearch", "doQueryAll", "QueryDocMini", "QueryDocument",
            "QueryIDs", "QueryCustomColumns"} =>
        \A i \in 1..Len(db) : ~db[i].err => db[i].closed

\* C11 witness: doQueryAll left through a panic of its loop, cursor closed.
C11_Witness ==
    /\ op = "doQueryAll"
    /\ ret.panic
    /\ Len(db) = 1
    /\ ~db[1].err
    /\ db[1].closed

\* the Document field that belongs to a name of the visibility key set
FieldOf(k) ==
    CASE k = "author_sort" -> "authorSort"
      [] k = "#pages" -> "Pages"
      [] k = "rating" -> "Rating"
      [] k = "title" -> "Title"
      [] k = "sort" -> "titleSort"
      [] k = "size" -> "Size"
      [] OTHER -> k

\* the field names whose visibility falls back to another name
Fallback == [authors |-> "author_sort", title |-> "sort"]

\* the policy of the last operation reports k, and the fallback of k, as
\* not visible
Hidden(k) ==
    /\ ~store.policy[k].visible
    /\ k \in DOMAIN Fallback => ~store.policy[Fallback[k]].visible

\* C14: in every document doQueryAll returns, each field of the visibility
\* key set that the policy reports as not visible (for authors and title:
\* the fallback name too) holds its zero value (SpecQuery).
C14_HiddenIsZero ==
    (op = "doQueryAll" /\ ~ret.rList.nil) =>
        \A i \in 1..Len(ret.rList.docs) : \A k \in VisibilityKeys :
            Hidden(k) => ret.rList.docs[i][FieldOf(k)] = NewDocument[FieldOf(k)]

\* the policy answers k with an error, and does not show the fallback of k
\* without an error
Erring(k) ==
    /\ store.policy[k].err
    /\ k \in DOMAIN Fallback =>
          ~(store.policy[Fallback[k]].visible /\ ~store.policy[Fallback[k]].err)

\* C15: a field whose policy lookup returns an error is left at its zero
\* value in every document doQueryAll returns, whatever boolean comes with
\* the error, and doQueryAll returns no error for it; read for the names
\* whose field doQueryAll sets by the policy, which leaves out author_sort
\* and sort (SpecQuery).
C15_ErrorsFailClosed ==
    op = "doQueryAll" =>
        /\ ret.rErr = IF store.detailErr THEN ErrStore ELSE ErrNil
        /\ ~ret.rList.nil =>
              \A i \in 1..Len(ret.rList.docs) :
                  \A k \in VisibilityKeys \ {"author_sort", "sort"} :
                      Erring(k)
                      => ret.rList.docs[i][FieldOf(k)] = NewDocument[FieldOf(k)]

\* C20: QueryDocument returns without failing; it returns nil when the
\* store query failed or produced no row, and a document only when the
\* query produced at least one row (SpecQuery).
C20_QueryDocumentNil ==
    op = "QueryDocument" =>
        /\ ~ret.panic
        /\ (store.detailErr \/ store.rows = 0) => ret.rDoc.nil
        /\ ~ret.rDoc.nil => (~store.detailErr /\ store.rows >= 1)

\* the fields of the options in the order of qoStringPattern
ScanOrder ==
    <<"ID", "Descending", "Entity", "GuiLang", "Layout", "LimitLength", "LimitStart",
      "Matching", "QueryCount", "SortBy", "Theme", "VirtLib">>

\* C17: after Scan, whatever the input string and whatever the receiving
\* options held before, every field from the first segment that fails to
\* parse on holds its zero value (SpecUpdate).
C17_UnparsedIsZero ==
    op = "ScanInput" =>
        \A k \in 1..Len(ScanOrder) :
            k > Len(DoScanf(arg, 1, 1, <<>>))
            => qo[ScanOrder[k]] = ZeroOptions[ScanOrder[k]]

\* s ends with t
EndsWith(s, t) == Len(s) >= Len(t) /\ SubSeq(s, Len(s) - Len(t) + 1, Len(s)) = t

\* C18: String() writes an empty VirtLib as - in the last position of the
\* pattern, and Scan reads - in the last position back as the empty string
\* (SpecUpdate).
C18_DashSentinel ==
    /\ (op = "Scan" /\ pre.VirtLib = sEmpty) => EndsWith(arg, <<"|", "-", "|">>)
    /\ (/\ op \in {"Scan", "ScanInput"}
        /\ \/ EndsWith(arg, <<"|", "-", "|">>)
           \/ EndsWith(arg, <<"|", "\"", "-", "\"", "|">>))
       => qo.VirtLib = sEmpty

\* C19: in every options state reached by Update calls and the entity
\* assignment of handleGET, a non-empty Matching and an active entity
\* restriction (Entity other than "" and "all", with ID # 0) do not hold
\* together (SpecFilter).
C19_FiltersExclusive ==
    ~(/\ qo.Matching # sEmpty
      /\ qo.Entity \notin {sEmpty, sAll}
      /\ qo.ID # 0)

\* the entity names handleGET stores in Entity, each with the key of the
\* JOIN clause of that entity in the table of having()
EntityKeys ==
    (sAuthor :> <<"a", "u", "t", "h", "o", "r", "s">>)
    @@ (<<"f", "o", "r", "m", "a", "t">> :> <<"f", "o", "r", "m", "a", "t">>)
    @@ (<<"l", "a", "n", "g">> :> <<"l", "a", "n", "g", "u", "a", "g", "e", "s">>)
    @@ (sPublisher :> sPublisher)
    @@ (sSeries :> sSeries)
    @@ (sTag :> sTags)

\* C21: for each entity name the request handler stores and every non-zero
\* id, having returns the JOIN ... WHERE (alias.key = id) clause of that
\* entity: the text of the clause up to the id, the id in decimal, and the
\* closing text.
C21_EntityFilter ==
    (op = "having" /\ arg[1] \in DOMAIN EntityKeys /\ arg[2] # 0)
        => LET clause == quHaving[EntityKeys[arg[1]]]
           IN  res.val = <<clause[1]>> \o FormatInt(arg[2]) \o <<clause[3]>>

\* C22: having returns the empty string whenever the entity name is empty,
\* is "all", is not a key of the entity table, or the id is 0.
C22_SilentNoOp ==
    (op = "having"
     /\ (arg[1] = sEmpty \/ arg[1] = sAll \/ arg[1] \notin DOMAIN quHaving \/ arg[2] = 0))
        => res.val = <<>>

\* C27: for every pair of unsigned start and length, limit returns
\* LIMIT <start>,<length> with the non-negative decimal values of the
\* arguments, and no minus sign.
C27_LimitNonNegative ==
    op = "limit"
        => /\ res.val = <<"LIMIT ">> \o FormatUint(arg[1]) \o <<",">> \o FormatUint(arg[2])
           /\ \A i \in 1..Len(res.val) : res.val[i] # "-"

\* the pieces of an ORDER BY clause between its head and its closing blank
Columns(clause) == SubSeq(clause, 2, Len(clause) - 1)

\* C25: for every sort key other than unsorted, orderBy returns an ORDER BY
\* clause of at least two columns in which every column is followed by DESC
\* when descending and no column is when ascending; for unsorted and for
\* an unrecognized sort key it returns the empty clause.
C25_EveryColumnDirected ==
    op = "orderBy"
        => IF arg[1] \in qoSortByAcquisition..qoSortByTitle
           THEN LET body == Columns(res.val)
                    IsColumn(t) == t \notin {" DESC", ", ", " ORDER BY ", " "}
                IN  /\ Len(res.val) >= 5
                    /\ res.val[1] = " ORDER BY "
                    /\ res.val[Len(res.val)] = " "
                    /\ IF arg[2]
                       THEN /\ Len(body) % 3 = 2
                            /\ \A i \in 1..Len(body) :
                                  CASE i % 3 = 1 -> IsColumn(body[i])
                                    [] i % 3 = 2 -> body[i] = " DESC"
                                    [] OTHER -> body[i] = ", "
                       ELSE /\ Len(body) % 2 = 1
                            /\ \A i \in 1..Len(body) :
                                  IF i % 2 = 1 THEN IsColumn(body[i]) ELSE body[i] = ", "
           ELSE res.val = <<>>

\* orderBy has returned the clause of a descending sort over three columns
C25_Witness ==
    /\ op = "orderBy"
    /\ arg = <<qoSortBySeries, TRUE>>
    /\ Len(Columns(res.val)) = 8

\* C23: QueryBy and QuerySearch issue the count query first, and the detail
\* query after it exactly when the count obtained is greater than zero;
\* with a count of 0 the count query is the only store query.
C23_CountBeforeDetail ==
    op \in {"QueryBy", "QuerySearch"}
        => /\ Len(db) \in {1, 2}
           /\ db[1].query = "count"
           /\ Len(db) = 2 => db[2].query = "detail"
           /\ Len(db) = 2 <=> 0 < ret.rCount

\* QuerySearch obtained the count 0 from a store that holds rows for the
\* detail query, and issued the count query only
C23_Witness ==
    /\ op = "QuerySearch"
    /\ ret.rCount = 0
    /\ ~store.countErr /\ ~store.detailErr /\ 0 < store.rows
    /\ Len(db) = 1

\* the policy of the last operation shows k: it reports k as visible or,
\* with k hidden, reports the fallback of k as visible
Shown(k) == store.policy[k].visible \/ store.policy[Fallback[k]].visible

\* C24: in every document doQueryAll returns, the authors list is decoded
\* and populated if and only if the policy shows authors (by itself or by
\* author_sort), and the Title is the title of the row if and only if the
\* policy shows title (by itself or by sort), and empty otherwise.
C24_VisibilityFallback ==
    (op = "doQueryAll" /\ ~ret.rList.nil) =>
        \A i \in 1..Len(ret.rList.docs) :
            LET doc == ret.rList.docs[i]
            IN  /\ IF Shown("authors")
                   THEN /\ ~doc.authors.nil
                        /\ [n \in 1..Len(doc.authors.val) |->
                              <<doc.authors.val[n].Name, doc.authors.val[n].ID>>]
                           = <<<<(<<"A">>), 1>>, <<(<<"B">>), 2>>>>
                   ELSE doc.authors = NewDocument.authors
                /\ doc.Title = IF Shown("title") THEN Row(i, store).Title ELSE sEmpty

\* doQueryAll has returned a document with authors and Title populated,
\* under a policy that hides authors and title and shows author_sort and sort
C24_Witness ==
    /\ op = "doQueryAll"
    /\ ~ret.rList.nil
    /\ 0 < Len(ret.rList.docs)
    /\ \/ /\ ~store.policy["authors"].visible
          /\ store.policy["author_sort"].visible
          /\ ~ret.rList.docs[1].authors.nil
       \/ /\ ~store.policy["title"].visible
          /\ store.policy["sort"].visible
          /\ ret.rList.docs[1].Title # sEmpty

\* C26: prepPublisher and prepSeries return the entity of the first
\* non-empty segment only: its Name, and its ID or 0 when the id part does
\* not parse; for an input without a non-empty segment they return nil.
C26_FirstEntityOnly ==
    op \in {"prepPublisher", "prepSeries"} =>
        IF Segments = <<>>
        THEN res.val[1].nil
        ELSE LET a == PartsOf(Segments[1])
             IN  /\ ~res.val[1].nil
                 /\ res.val[1].Name = a[1]
                 /\ res.val[1].ID = IF Atoi(a[2]).ok THEN Atoi(a[2]).val ELSE 0

\* C28: an Update call whose request names exactly the values the options
\* hold (page size, matching, order, sort field and virtual library, the
\* entry - while VirtLib is empty) leaves LimitStart, Entity and ID
\* unchanged.
C28_PaginationKept ==
    (op = "Update" /\ req = SameRequest(pre))
        => /\ qo.LimitStart = pre.LimitStart
           /\ qo.Entity = pre.Entity
           /\ qo.ID = pre.ID

====
